---------------------------- MODULE Spec2Model ----------------------------
(***************************************************************************)
(* Pic2Product: the catalog index of api.py (State, the cache protocol of  *)
(* _save_cache / _try_load_cache, _build_catalog, the /catalog/rebuild,    *)
(* /catalog/query, /recommend and /health handlers, the uploads the        *)
(* requests leave under RUNS_DIR), load_catalog, the encoder and           *)
(* detect_instances of mvp_reco.py, choose_text_field of data_merge.py.    *)
(*                                                                         *)
(* Python's None is the empty tuple <<>> and a present value v is <<v>>.   *)
(* An embedding matrix is a sequence of vectors, a vector a pair of        *)
(* integers of length Scale (the encoder's unit length).                   *)
(***************************************************************************)
EXTENDS Integers, Sequences, FiniteSets, TLC

None == <<>>
Some(v) == <<v>>
IsNone(o) == o = <<>>
Val(o) == o[1]

---------------------------------------------------------------------------
(* Bounds of the model.                                                    *)

\* Requests (rebuild or recommend) the server accepts in one behaviour.
MaxRequests == 2
\* Instances the detector returns for one upload.
MaxInstances == 2
\* Rows of a catalog source given to load_catalog on its own.
MaxCsvRows == 3
\* /recommend requests in flight together on the event loop.
MaxUploads == 2
\* The last millisecond of the clock that stamps the uploads.
MaxClock == 1

---------------------------------------------------------------------------
(* The catalog store and the encoder: external collaborators.              *)

CsvA == "catalog/a.csv"
CsvB == "catalog/b.csv"
CsvEmpty == "catalog/empty.csv"
CsvMissing == "catalog/nope.csv"
CsvT == "catalog/t.csv"
CsvU == "catalog/u.csv"

RequiredFields == {"sku_id", "title", "brand", "image_path"}

CsvRow(s, t, b, i) == [sku_id |-> s, title |-> t, brand |-> b, image_path |-> i]

RowA1 == CsvRow("s1", "t1", "b1", "i1.jpg")
RowA2 == CsvRow("s2", "t2", "b1", "i2.jpg")
RowA3 == CsvRow("s3", "t3", "b2", "i3.jpg")
RowB1 == CsvRow("s4", "t4", "b2", "i4.jpg")
\* Two items that share their image and their text.
RowT1 == CsvRow("s5", "t1", "b1", "i1.jpg")
RowT2 == CsvRow("s6", "t1", "b1", "i1.jpg")
\* Two items whose embeddings are orthogonal, image and text agreeing.
RowU1 == CsvRow("s7", "t1", "b1", "i1.jpg")
RowU2 == CsvRow("s8", "t2", "b1", "i5.jpg")

\* The image files that exist; i2.jpg does not.
ImageFiles == {<<"catalog", "i1.jpg">>, <<"catalog", "i3.jpg">>, <<"catalog", "i4.jpg">>,
               <<"catalog", "i5.jpg">>}

\* The catalog sources on disk: header and data rows.
CsvFiles ==
    [p \in {CsvA, CsvB, CsvEmpty, CsvT, CsvU} |->
        CASE p = CsvA -> [fieldnames |-> RequiredFields, rows |-> <<RowA1, RowA2, RowA3>>]
          [] p = CsvU -> [fieldnames |-> RequiredFields, rows |-> <<RowU1, RowU2>>]
          [] p = CsvT -> [fieldnames |-> RequiredFields, rows |-> <<RowT1, RowT2, RowA3>>]
          [] p = CsvB -> [fieldnames |-> RequiredFields, rows |-> <<RowB1>>]
          [] p = CsvEmpty -> [fieldnames |-> RequiredFields, rows |-> <<RowA2>>]]

PathExists(p) == p \in DOMAIN CsvFiles

\* Path(csv_path).parent
Parent(p) == "catalog"

Scale == 5

\* The vectors of length Scale.
UnitVectors ==
    {v \in (-Scale..Scale) \X (-Scale..Scale) : v[1] * v[1] + v[2] * v[2] = Scale * Scale}

\* The features handed on as the model gave them.
normalize_skipped(feat) == feat

\* feat / feat.norm(dim=-1, keepdim=True): the vector of length Scale in the
\* direction of feat.
normalize(feat) ==
    CHOOSE v \in UnitVectors :
        v[1] * feat[2] = v[2] * feat[1] /\ v[1] * feat[1] + v[2] * feat[2] > 0

\* self.model.encode_image: the features of an image, of any length.
model_encode_image(p) ==
    CASE p[2] = "i1.jpg" -> <<10, 0>>
      [] p[2] = "i2.jpg" -> <<0, 15>>
      [] p[2] = "i5.jpg" -> <<0, 5>>
      [] p[2] = "i3.jpg" -> <<6, 8>>
      [] OTHER -> <<4, 3>>

\* self.model.encode_text: the features of a text, of any length.
model_encode_text(text) ==
    CASE text[2] = "t1" -> <<15, 0>>
      [] text[2] = "t2" -> <<0, 10>>
      [] text[2] = "t3" -> <<8, 6>>
      [] OTHER -> <<3, 4>>

\* The images and the texts there are to encode.
ImageNames == {"i1.jpg", "i2.jpg", "i3.jpg", "i4.jpg", "i5.jpg"}
Titles == {"t1", "t2", "t3", "t4"}

\* 50-53 and 57-60 for every image and every text: the normalized features.
image_feat == [f \in ImageNames |-> normalize(model_encode_image(<<"", f>>))]
text_feat == [t \in Titles |-> normalize(model_encode_text(<<"", t>>))]

\* ClipEncoder.encode_image: one vector of length Scale per image file.
encode_image(p) == image_feat[p[2]]

\* ClipEncoder.encode_text: one vector of length Scale per text.
encode_text(text) == text_feat[text[2]]

---------------------------------------------------------------------------
(* mvp_reco.load_catalog                                                   *)

\* f"{brand} {title}".strip(): the words of the text.
RowText(row) == <<row.brand, row.title>>

CatalogRow(row, p) ==
    [sku_id |-> row.sku_id, title |-> row.title, brand |-> row.brand,
     image_path |-> p, text |-> RowText(row)]

EmptyCatalog == [ok |-> TRUE, error |-> "", rows |-> <<>>, img_embs |-> <<>>,
                 txt_embs |-> <<>>, enc_calls |-> 0]

CatalogError(e, acc) == [ok |-> FALSE, error |-> e, rows |-> <<>>, img_embs |-> <<>>,
                         txt_embs |-> <<>>, enc_calls |-> acc.enc_calls]

\* A loop that ends at the first row whose image is missing, where load_catalog
\* goes on to the next row.
RECURSIVE load_catalog_loop_break(_, _, _)
load_catalog_loop_break(rows_csv, parent, acc) ==
    IF rows_csv = <<>> THEN acc
    ELSE LET row == Head(rows_csv)
             p == <<parent, row.image_path>>
         IN IF p \notin ImageFiles
            THEN acc
            ELSE load_catalog_loop_break(Tail(rows_csv), parent,
                    [acc EXCEPT !.rows = Append(@, CatalogRow(row, p)),
                                !.img_embs = Append(@, encode_image(p)),
                                !.txt_embs = Append(@, encode_text(RowText(row))),
                                !.enc_calls = @ + 2])

\* The for loop of load_catalog: a row whose image is missing is skipped.
RECURSIVE load_catalog_loop(_, _, _)
load_catalog_loop(rows_csv, parent, acc) ==
    IF rows_csv = <<>> THEN acc
    ELSE LET row == Head(rows_csv)
             p == <<parent, row.image_path>>
         IN IF p \notin ImageFiles
            THEN load_catalog_loop(Tail(rows_csv), parent, acc)
            ELSE load_catalog_loop(Tail(rows_csv), parent,
                    [acc EXCEPT !.rows = Append(@, CatalogRow(row, p)),
                                !.img_embs = Append(@, encode_image(p)),
                                !.txt_embs = Append(@, encode_text(RowText(row))),
                                !.enc_calls = @ + 2])

\* load_catalog on an opened source: header check, the loop, the empty check.
load_catalog_file(csv, parent) ==
    IF csv.fieldnames = {} THEN CatalogError("NoHeader", EmptyCatalog)
    ELSE IF RequiredFields \ csv.fieldnames # {} THEN CatalogError("MissingColumns", EmptyCatalog)
    ELSE LET acc == load_catalog_loop(csv.rows, parent, EmptyCatalog)
         IN IF acc.rows = <<>> THEN CatalogError("CatalogEmpty", acc) ELSE acc

load_catalog(csv_path) == load_catalog_file(CsvFiles[csv_path], Parent(csv_path))

---------------------------------------------------------------------------
(* The state of the server.                                                *)

VARIABLES
    catalog_rows,     \* State.catalog_rows
    img_embs,         \* State.img_embs (None or a matrix)
    txt_embs,         \* State.txt_embs (None or a matrix)
    embedding_dim,    \* State.embedding_dim (None or an integer)
    catalog_path,     \* State.catalog_path
    CATALOG_CSV,      \* the configured default catalog source (environment)
    npz_file,         \* EMB_DIR / "catalog_embeddings.npz"
    idx_file,         \* EMB_DIR / "catalog_index.json"
    pc,               \* where each thread is
    loc,              \* the locals of the startup thread and of the pool workers
    rq,               \* the locals of the /recommend coroutine
    nreq,             \* requests accepted so far
    lc_csv,           \* a catalog source handed to load_catalog on its own
    lc_out,           \* what load_catalog returned for it (None before the call)
    det_res,          \* an image's size and the detector's result for it
    det_ret,          \* what detect_instances returned for it (None before the call)
    ctf_args,         \* field_list and default handed to choose_text_field
    ctf_ret,          \* what choose_text_field returned for them (None before the call)
    uploads,          \* RUNS_DIR / "uploads": the content of each file
    vis_files,        \* RUNS_DIR: the content of each visualization
    clock,            \* time.time() in milliseconds
    running,          \* the coroutine the event loop is running (None: the loop is free)
    req,              \* the /recommend coroutines in flight together
    hq                \* a /health request

index_vars == <<catalog_rows, img_embs, txt_embs, embedding_dim>>
state_vars == <<catalog_rows, img_embs, txt_embs, embedding_dim, catalog_path>>
disk_vars == <<npz_file, idx_file>>
lc_vars == <<lc_csv, lc_out>>
pure_vars == <<det_res, det_ret, ctf_args, ctf_ret>>
run_vars == <<uploads, vis_files, clock>>
up_vars == <<running, req, hq>>
vars == <<catalog_rows, img_embs, txt_embs, embedding_dim, catalog_path, CATALOG_CSV,
          npz_file, idx_file, pc, loc, rq, nreq, lc_csv, lc_out,
          det_res, det_ret, ctf_args, ctf_ret,
          uploads, vis_files, clock, running, req, hq>>

\* The startup thread, the thread pool that runs the sync handlers, the event loop.
Main == "main"
Workers == {"w1", "w2"}
Loop == "ev"
Builders == Workers \cup {Main}
Threads == Builders \cup {Loop}

\* A file: absent, being written (truncated, not yet closed), or complete.
FileAbsent == [st |-> "absent"]
FilePartial == [st |-> "partial"]
\* `by` records which _save_cache call wrote the file (the request's number, 0 for
\* _startup, negative for files found in EMB_DIR); no step of the server reads it.
FileOk(d, by) == [st |-> "ok", data |-> d, by |-> by]

\* Matrix shape: shape[0] and shape[1].
NRows(m) == Len(m)
Dim(m) == IF m = <<>> THEN 0 ELSE Len(m[1])

Ids(rows) == [i \in 1..Len(rows) |-> rows[i].sku_id]

\* Row i of the metadata, of the image matrix and of the text matrix describe the
\* same catalog item (used by the properties only).
Aligned(rows, img, txt) ==
    /\ Len(img) = Len(rows)
    /\ Len(txt) = Len(rows)
    /\ \A i \in 1..Len(rows) : /\ img[i] = encode_image(rows[i].image_path)
                               /\ txt[i] = encode_text(rows[i].text)

\* An archive whose two matrices are stored under each other's key.
NpzOf_swapped(img, txt) == [img_embs |-> txt, txt_embs |-> img]

\* The two files _save_cache writes for an index.
NpzOf(img, txt) == [img_embs |-> img, txt_embs |-> txt]
ManifestOf(rows, img) == [embedding_dim |-> Dim(img), ids |-> Ids(rows), rows |-> rows]

\* What EMB_DIR may hold when the process starts: nothing, the cache an earlier run
\* saved for CsvB, or that archive beside a manifest of an older layout, which lists
\* the ids and has no "rows" key.
ForeignManifest == [embedding_dim |-> 2, ids |-> <<"s4">>]
GoodB == load_catalog(CsvB)
GoodA == load_catalog(CsvA)

InitialCaches ==
    { <<FileAbsent, FileAbsent>>,
      <<FileOk(NpzOf(GoodB.img_embs, GoodB.txt_embs), -1),
        FileOk(ManifestOf(GoodB.rows, GoodB.img_embs), -1)>>,
      <<FileOk(NpzOf(GoodB.img_embs, GoodB.txt_embs), -1), FileOk(ForeignManifest, -2)>>,
      \* a save of CsvB that stopped after line 97, over a cache saved for CsvA
      <<FileOk(NpzOf(GoodB.img_embs, GoodB.txt_embs), -1),
        FileOk(ManifestOf(GoodA.rows, GoodA.img_embs), -2)>> }

NoResp == None

\* Uploads and visualizations: img_path is f"{stamp}_{image.filename}" under
\* RUNS_DIR / "uploads", vis_path is f"{img_path.stem}_vis.jpg" under RUNS_DIR.
\* A path is the pair <<stamp, filename>>; a file is absent, empty (opened for
\* writing) or holds the bytes written last.
Filenames == {"a.jpg", "b.jpg"}
Images == {"x", "y"}
UploadPaths == (0..MaxClock) \X Filenames
Absent == "absent"
Empty == "empty"
ImgPath(stamp, filename) == <<stamp, filename>>

\* The /recommend coroutines in flight together.
Reqs == 1..MaxUploads
IdleReq == [pc |-> "idle", filename |-> "", image |-> "", img_path |-> None,
            resp |-> 0]
\* `reported`: an earlier /health request has answered catalog_ready = true.
IdleHealth == [pc |-> "none", catalog_ready |-> FALSE, reported |-> FALSE]
Resp(code, status, size, dim) ==
    Some([code |-> code, status |-> status, catalog_size |-> size, embedding_dim |-> dim])

IdleLoc == [rid |-> 0, force |-> FALSE, csv_path |-> "", caller |-> "", ret |-> "",
            sku_ids |-> <<>>,
            npz |-> None, idx |-> None, catalog |-> None,
            a_rows |-> None, a_img |-> None, a_txt |-> None,
            resp |-> NoResp, loaded |-> None,
            \* history of the request, kept for the properties below: encoder calls
            \* made, whether the catalog source was read, whether the current
            \* _try_load_cache call (dirty) or the request (changed) has given a
            \* field of the index a new value
            enc_calls |-> 0, src_read |-> FALSE, dirty |-> FALSE, changed |-> FALSE]

IdleRq == [topk |-> 0, alpha |-> 0, return_vis |-> FALSE, instances |-> <<>>,
           \* the list detect_instances returned (instances is what the loop has left)
           detected |-> <<>>,
           img |-> None, txt |-> None, rows |-> None, score |-> <<>>, idx |-> <<>>,
           img_path |-> None, image |-> "",
           recos |-> <<>>,
           \* history: the index was one aligned index when the request read it first
           clean |-> FALSE,
           results |-> <<>>, resp |-> NoResp]

\* No call of detect_instances or of choose_text_field on its own.
DetIdle == det_res = [size |-> <<0, 0>>, boxes |-> None] /\ det_ret = None
CtfIdle == ctf_args = [field_list |-> <<>>, default |-> <<>>] /\ ctf_ret = None

\* The process as it starts: State's class attributes, _startup about to run.
Boot(default) ==
    /\ catalog_rows = <<>>
    /\ img_embs = None
    /\ txt_embs = None
    /\ embedding_dim = None
    /\ catalog_path = default
    /\ CATALOG_CSV = default
    /\ pc = [t \in Threads |-> IF t = Main THEN "lc_exists" ELSE "idle"]
    /\ loc = [t \in Builders |->
                IF t = Main THEN [IdleLoc EXCEPT !.caller = "startup", !.ret = "startup"]
                ELSE IdleLoc]
    /\ rq = IdleRq
    /\ nreq = 0
    /\ uploads = [p \in UploadPaths |-> Absent]
    /\ vis_files = [p \in UploadPaths |-> Absent]
    /\ clock = 0
    /\ running = None
    /\ req = [r \in Reqs |-> IdleReq]
    /\ hq = IdleHealth

Init ==
    /\ \E default \in {CsvA, CsvMissing} : Boot(default)
    /\ \E c \in InitialCaches : npz_file = c[1] /\ idx_file = c[2]
    /\ lc_csv = [fieldnames |-> RequiredFields, rows |-> <<>>]
    /\ lc_out = None
    /\ DetIdle
    /\ CtfIdle

Serving == pc[Main] = "serving"

---------------------------------------------------------------------------
(* Control transfers shared by the steps below.                            *)

Goto(t, label) == pc' = [pc EXCEPT ![t] = label]

\* An exception leaves the handler: _startup fails and the server never serves;
\* a request is answered with a server error.
Raise(t, l) ==
    IF l.caller = "startup"
    THEN /\ Goto(t, "crashed")
         /\ loc' = [loc EXCEPT ![t] = IdleLoc]
    ELSE /\ Goto(t, "done")
         /\ loc' = [loc EXCEPT ![t] = [l EXCEPT
                        !.resp = Resp(500, "error", 0, None),
                        !.npz = None, !.idx = None, !.catalog = None,
                        !.a_rows = None, !.a_img = None, !.a_txt = None]]

\* _build_catalog returns `report` (api.py 128-133, 142-147): to _startup, to
\* catalog_query, which drops it (188), or to catalog_rebuild, which answers with it.
BuildReturn(t, report) ==
    IF loc[t].caller = "startup"
    THEN /\ Goto(t, "serving")
         /\ loc' = [loc EXCEPT ![t] = IdleLoc]
    ELSE IF loc[t].caller = "query"
    THEN /\ Goto(t, "cq_lookup")
         /\ loc' = [loc EXCEPT ![t] = [@ EXCEPT !.npz = None, !.idx = None, !.catalog = None,
                                          !.a_rows = None, !.a_img = None, !.a_txt = None]]
    ELSE /\ Goto(t, "done")
         /\ loc' = [loc EXCEPT ![t] = [@ EXCEPT !.resp = report,
                                          !.npz = None, !.idx = None, !.catalog = None,
                                          !.a_rows = None, !.a_img = None, !.a_txt = None]]

\* _try_load_cache returns `result`: to _startup (160) or to _build_catalog (127).
LoadReturn(t, l0, result) ==
    LET l == [l0 EXCEPT !.loaded = Some(result),
                            !.npz = IF result THEN @ ELSE None,
                            !.idx = IF result THEN @ ELSE None]
    IN IF l0.ret = "startup"
       THEN IF ~result /\ PathExists(catalog_path)
            THEN /\ Goto(t, "lc_exists")
                 /\ loc' = [loc EXCEPT ![t] = [l EXCEPT !.ret = "build", !.force = FALSE,
                                                  !.csv_path = catalog_path]]
            ELSE /\ Goto(t, "serving")
                 /\ loc' = [loc EXCEPT ![t] = IdleLoc]
       ELSE /\ Goto(t, IF result THEN "bc_loaded_report" ELSE "bc_load_catalog")
            /\ loc' = [loc EXCEPT ![t] = l]

\* The history of thread t after it assigned `new` to a field that held `old`.
Touched(l, old, new, in_load) ==
    [l EXCEPT !.changed = @ \/ old # new,
              !.dirty = @ \/ (in_load /\ old # new)]

---------------------------------------------------------------------------
(* api._try_load_cache, one step per access to a file or to State.         *)

\* 109-112: both files must exist.
lc_exists(t) ==
    /\ pc[t] = "lc_exists"
    /\ LET l == [loc[t] EXCEPT !.loaded = None, !.dirty = FALSE]
       IN IF npz_file.st # "absent" /\ idx_file.st # "absent"
          THEN Goto(t, "lc_npload") /\ loc' = [loc EXCEPT ![t] = l]
          ELSE LoadReturn(t, l, FALSE)
    /\ UNCHANGED <<state_vars, CATALOG_CSV, disk_vars, rq, nreq,
                   lc_vars, pure_vars, run_vars, up_vars>>

\* 114: np.load opens the archive (its members are read on access).
lc_npload(t) ==
    /\ pc[t] = "lc_npload"
    /\ IF npz_file.st = "ok"
       THEN /\ Goto(t, "lc_jsonload")
            /\ loc' = [loc EXCEPT ![t].npz = Some(npz_file)]
       ELSE LoadReturn(t, loc[t], FALSE)
    /\ UNCHANGED <<state_vars, CATALOG_CSV, disk_vars, rq, nreq,
                   lc_vars, pure_vars, run_vars, up_vars>>

\* 115-116: json.load of the manifest.
lc_jsonload(t) ==
    /\ pc[t] = "lc_jsonload"
    /\ IF idx_file.st = "ok"
       THEN /\ Goto(t, "lc_img")
            /\ loc' = [loc EXCEPT ![t].idx = Some(idx_file)]
       ELSE LoadReturn(t, loc[t], FALSE)
    /\ UNCHANGED <<state_vars, CATALOG_CSV, disk_vars, rq, nreq,
                   lc_vars, pure_vars, run_vars, up_vars>>

\* Reading member `key` of the opened archive: it is there, and the file is still the
\* one np.load opened (a truncated or rewritten file fails the read).
NpzReadable(t, key) ==
    /\ key \in DOMAIN Val(loc[t].npz).data
    /\ npz_file.st = "ok"
    /\ npz_file.data = Val(loc[t].npz).data

\* 117: state.img_embs = np.array(npz["img_embs"])
lc_img(t) ==
    /\ pc[t] = "lc_img"
    /\ IF NpzReadable(t, "img_embs")
       THEN /\ img_embs' = Some(Val(loc[t].npz).data.img_embs)
            /\ Goto(t, "lc_txt")
            /\ loc' = [loc EXCEPT ![t] = Touched(@, img_embs, img_embs', TRUE)]
       ELSE /\ LoadReturn(t, loc[t], FALSE)
            /\ UNCHANGED img_embs
    /\ UNCHANGED <<catalog_rows, txt_embs, embedding_dim, catalog_path, CATALOG_CSV,
                   disk_vars, rq, nreq, lc_vars, pure_vars, run_vars, up_vars>>

\* 118: state.txt_embs = np.array(npz["txt_embs"])
lc_txt(t) ==
    /\ pc[t] = "lc_txt"
    /\ IF NpzReadable(t, "txt_embs")
       THEN /\ txt_embs' = Some(Val(loc[t].npz).data.txt_embs)
            /\ Goto(t, "lc_rows")
            /\ loc' = [loc EXCEPT ![t] = Touched(@, txt_embs, txt_embs', TRUE)]
       ELSE /\ LoadReturn(t, loc[t], FALSE)
            /\ UNCHANGED txt_embs
    /\ UNCHANGED <<catalog_rows, img_embs, embedding_dim, catalog_path, CATALOG_CSV,
                   disk_vars, rq, nreq, lc_vars, pure_vars, run_vars, up_vars>>

\* 119: state.catalog_rows = idx["rows"]
lc_rows(t) ==
    /\ pc[t] = "lc_rows"
    /\ IF "rows" \in DOMAIN Val(loc[t].idx).data
       THEN /\ catalog_rows' = Val(loc[t].idx).data.rows
            /\ Goto(t, "lc_dim")
            /\ loc' = [loc EXCEPT ![t] = Touched(@, catalog_rows, catalog_rows', TRUE)]
       ELSE /\ LoadReturn(t, loc[t], FALSE)
            /\ UNCHANGED catalog_rows
    /\ UNCHANGED <<img_embs, txt_embs, embedding_dim, catalog_path, CATALOG_CSV,
                   disk_vars, rq, nreq, lc_vars, pure_vars, run_vars, up_vars>>

\* 120-121: state.embedding_dim = int(idx.get("embedding_dim", state.img_embs.shape[1]))
lc_dim(t) ==
    /\ pc[t] = "lc_dim"
    /\ embedding_dim' = Some(IF "embedding_dim" \in DOMAIN Val(loc[t].idx).data
                             THEN Val(loc[t].idx).data.embedding_dim
                             ELSE Dim(Val(img_embs)))
    /\ LoadReturn(t, Touched(loc[t], embedding_dim, embedding_dim', TRUE), TRUE)
    /\ UNCHANGED <<catalog_rows, img_embs, txt_embs, catalog_path, CATALOG_CSV,
                   disk_vars, rq, nreq, lc_vars, pure_vars, run_vars, up_vars>>

---------------------------------------------------------------------------
(* api._build_catalog and api._save_cache.                                 *)

\* 128-133: the report of a cache hit.
bc_loaded_report(t) ==
    /\ pc[t] = "bc_loaded_report"
    /\ BuildReturn(t, Resp(200, "loaded", Len(catalog_rows), embedding_dim))
    /\ UNCHANGED <<state_vars, CATALOG_CSV, disk_vars, rq, nreq,
                   lc_vars, pure_vars, run_vars, up_vars>>

\* 135-136: catalog = load_catalog(clip, csv_path); state.catalog_rows = catalog["rows"]
bc_load_catalog(t) ==
    /\ pc[t] = "bc_load_catalog"
    /\ LET catalog == load_catalog(loc[t].csv_path)
       IN IF catalog.ok
          THEN /\ catalog_rows' = catalog.rows
               /\ Goto(t, "bc_img")
               /\ loc' = [loc EXCEPT ![t] =
                            [Touched(@, catalog_rows, catalog_rows', FALSE) EXCEPT
                                !.catalog = Some(catalog),
                                !.enc_calls = @ + catalog.enc_calls,
                                !.src_read = TRUE]]
          ELSE /\ Raise(t, [loc[t] EXCEPT !.enc_calls = @ + catalog.enc_calls,
                                          !.src_read = TRUE])
               /\ UNCHANGED catalog_rows
    /\ UNCHANGED <<img_embs, txt_embs, embedding_dim, catalog_path, CATALOG_CSV,
                   disk_vars, rq, nreq, lc_vars, pure_vars, run_vars, up_vars>>

\* 137: state.img_embs = catalog["img_embs"]
bc_img(t) ==
    /\ pc[t] = "bc_img"
    /\ img_embs' = Some(Val(loc[t].catalog).img_embs)
    /\ Goto(t, "bc_txt")
    /\ loc' = [loc EXCEPT ![t] = Touched(@, img_embs, img_embs', FALSE)]
    /\ UNCHANGED <<catalog_rows, txt_embs, embedding_dim, catalog_path, CATALOG_CSV,
                   disk_vars, rq, nreq, lc_vars, pure_vars, run_vars, up_vars>>

\* 138: state.txt_embs = catalog["txt_embs"]
bc_txt(t) ==
    /\ pc[t] = "bc_txt"
    /\ txt_embs' = Some(Val(loc[t].catalog).txt_embs)
    /\ Goto(t, "bc_dim")
    /\ loc' = [loc EXCEPT ![t] = Touched(@, txt_embs, txt_embs', FALSE)]
    /\ UNCHANGED <<catalog_rows, img_embs, embedding_dim, catalog_path, CATALOG_CSV,
                   disk_vars, rq, nreq, lc_vars, pure_vars, run_vars, up_vars>>

\* 139: state.embedding_dim = int(state.img_embs.shape[1])
bc_dim(t) ==
    /\ pc[t] = "bc_dim"
    /\ embedding_dim' = Some(Dim(Val(img_embs)))
    /\ Goto(t, "bc_save")
    /\ loc' = [loc EXCEPT ![t] = Touched(@, embedding_dim, embedding_dim', FALSE)]
    /\ UNCHANGED <<catalog_rows, img_embs, txt_embs, catalog_path, CATALOG_CSV,
                   disk_vars, rq, nreq, lc_vars, pure_vars, run_vars, up_vars>>

\* 141: the arguments of _save_cache are read from State.
bc_save(t) ==
    /\ pc[t] = "bc_save"
    /\ loc' = [loc EXCEPT ![t].a_rows = Some(catalog_rows),
                          ![t].a_img = img_embs,
                          ![t].a_txt = txt_embs]
    /\ Goto(t, "sc_npz_open")
    /\ UNCHANGED <<state_vars, CATALOG_CSV, disk_vars, rq, nreq,
                   lc_vars, pure_vars, run_vars, up_vars>>

\* 98: np.savez opens (truncates) the archive ...
sc_npz_open(t) ==
    /\ pc[t] = "sc_npz_open"
    /\ npz_file' = FilePartial
    /\ Goto(t, "sc_npz_close")
    /\ UNCHANGED <<state_vars, CATALOG_CSV, idx_file, loc, rq, nreq,
                   lc_vars, pure_vars, run_vars, up_vars>>

\* ... and closes it with both matrices written.
sc_npz_close(t) ==
    /\ pc[t] = "sc_npz_close"
    /\ npz_file' = FileOk(NpzOf(Val(loc[t].a_img), Val(loc[t].a_txt)), loc[t].rid)
    /\ Goto(t, "sc_idx_open")
    /\ UNCHANGED <<state_vars, CATALOG_CSV, idx_file, loc, rq, nreq,
                   lc_vars, pure_vars, run_vars, up_vars>>

\* 105: open(..., "w") truncates the manifest ...
sc_idx_open(t) ==
    /\ pc[t] = "sc_idx_open"
    /\ idx_file' = FilePartial
    /\ Goto(t, "sc_idx_close")
    /\ UNCHANGED <<state_vars, CATALOG_CSV, npz_file, loc, rq, nreq,
                   lc_vars, pure_vars, run_vars, up_vars>>

\* 105: ... or fails to open it (an I/O error): the exception leaves _save_cache
\* between its two writes.
sc_idx_fail(t) ==
    /\ pc[t] = "sc_idx_open"
    /\ Raise(t, loc[t])
    /\ UNCHANGED <<state_vars, CATALOG_CSV, disk_vars, rq, nreq,
                   lc_vars, pure_vars, run_vars, up_vars>>

\* 99-106: ... and json.dump writes it.
sc_idx_close(t) ==
    /\ pc[t] = "sc_idx_close"
    /\ idx_file' = FileOk(ManifestOf(Val(loc[t].a_rows), Val(loc[t].a_img)), loc[t].rid)
    /\ Goto(t, "bc_success_report")
    /\ UNCHANGED <<state_vars, CATALOG_CSV, npz_file, loc, rq, nreq,
                   lc_vars, pure_vars, run_vars, up_vars>>

\* 142-147: the report of a fresh build.
bc_success_report(t) ==
    /\ pc[t] = "bc_success_report"
    /\ BuildReturn(t, Resp(200, "success", Len(catalog_rows), embedding_dim))
    /\ UNCHANGED <<state_vars, CATALOG_CSV, disk_vars, rq, nreq,
                   lc_vars, pure_vars, run_vars, up_vars>>

---------------------------------------------------------------------------
(* POST /catalog/rebuild, run by a pool worker.                            *)

RebuildPaths == {None, Some(CsvA), Some(CsvB), Some(CsvEmpty), Some(CsvMissing)}

\* The pool hands a request to its first free worker.
FreeWorker(t) ==
    /\ t \in Workers
    /\ pc[t] = "idle"
    /\ t = "w2" => pc["w1"] # "idle"

\* A rebuild that records the source before it checks that the source exists.
catalog_rebuild_path_first(t, force, catalog_csv) ==
    /\ Serving
    /\ FreeWorker(t)
    /\ nreq < MaxRequests
    /\ nreq' = nreq + 1
    /\ LET csv_path == IF IsNone(catalog_csv) THEN catalog_path ELSE Val(catalog_csv)
           l == [IdleLoc EXCEPT !.rid = nreq + 1, !.force = force, !.csv_path = csv_path,
                                !.caller = "rebuild", !.ret = "build"]
       IN /\ catalog_path' = csv_path
          /\ IF ~PathExists(csv_path)
             THEN /\ Goto(t, "done")
                  /\ loc' = [loc EXCEPT ![t] = [l EXCEPT !.resp = Resp(400, "error", 0, None)]]
             ELSE /\ Goto(t, "rb_setpath")
                  /\ loc' = [loc EXCEPT ![t] = l]
    /\ UNCHANGED <<index_vars, CATALOG_CSV, disk_vars, rq,
                   lc_vars, pure_vars, run_vars, up_vars>>

\* 178-180: the source is the request's, else State.catalog_path; it must exist.
catalog_rebuild(t, force, catalog_csv) ==
    /\ Serving
    /\ FreeWorker(t)
    /\ nreq < MaxRequests
    /\ nreq' = nreq + 1
    /\ LET csv_path == IF IsNone(catalog_csv) THEN catalog_path ELSE Val(catalog_csv)
           l == [IdleLoc EXCEPT !.rid = nreq + 1, !.force = force, !.csv_path = csv_path,
                                !.caller = "rebuild", !.ret = "build"]
       IN IF ~PathExists(csv_path)
          THEN /\ Goto(t, "done")
               /\ loc' = [loc EXCEPT ![t] = [l EXCEPT !.resp = Resp(400, "error", 0, None)]]
          ELSE /\ Goto(t, "rb_setpath")
               /\ loc' = [loc EXCEPT ![t] = l]
    /\ UNCHANGED <<state_vars, CATALOG_CSV, disk_vars, rq,
                   lc_vars, pure_vars, run_vars, up_vars>>

\* A rebuild that tries the cache whatever force says.
rb_setpath_ignore_force(t) ==
    /\ pc[t] = "rb_setpath"
    /\ catalog_path' = loc[t].csv_path
    /\ Goto(t, "lc_exists")
    /\ UNCHANGED <<index_vars, CATALOG_CSV, disk_vars, loc, rq, nreq,
                   lc_vars, pure_vars, run_vars, up_vars>>

\* 181-182: state.catalog_path = csv_path; _build_catalog(..., force=req.force)
rb_setpath(t) ==
    /\ pc[t] = "rb_setpath"
    /\ catalog_path' = loc[t].csv_path
    /\ Goto(t, IF loc[t].force THEN "bc_load_catalog" ELSE "lc_exists")
    /\ UNCHANGED <<index_vars, CATALOG_CSV, disk_vars, loc, rq, nreq,
                   lc_vars, pure_vars, run_vars, up_vars>>

\* The response has been sent; the worker is free again.
respond(t) ==
    /\ t \in Workers
    /\ pc[t] = "done"
    /\ Goto(t, "idle")
    /\ loc' = [loc EXCEPT ![t] = IdleLoc]
    /\ UNCHANGED <<state_vars, CATALOG_CSV, disk_vars, rq, nreq,
                   lc_vars, pure_vars, run_vars, up_vars>>

---------------------------------------------------------------------------
(* POST /catalog/query, on a pool worker.                                  *)

MaxIds == 2
\* The sku_ids a request may name; "s9" is in no catalog.
SkuPool == {"s1", "s3", "s7", "s9"}

QueryResp(items, missing) == Some([code |-> 200, items |-> items, missing |-> missing])

\* rows_by_id.get(sid): a later row replaces an earlier one with the same sku_id.
RowById(rows, sid) ==
    LET hits == {i \in 1..Len(rows) : rows[i].sku_id = sid}
    IN IF hits = {} THEN None
       ELSE Some(rows[CHOOSE i \in hits : \A k \in hits : k <= i])

QueryItem(r) ==
    [sku_id |-> r.sku_id, title |-> r.title, brand |-> r.brand, image_url |-> r.image_path]

\* The lookup with the ids that are not found left out of the answer.
RECURSIVE catalog_query_loop_drop(_, _, _, _)
catalog_query_loop_drop(rows, sku_ids, items, missing) ==
    IF sku_ids = <<>> THEN [items |-> items, missing |-> missing]
    ELSE LET r == RowById(rows, Head(sku_ids))
         IN IF ~IsNone(r)
            THEN catalog_query_loop_drop(rows, Tail(sku_ids), Append(items, QueryItem(Val(r))),
                                         missing)
            ELSE catalog_query_loop_drop(rows, Tail(sku_ids), items, missing)

\* 190-201: every requested id goes to items, with its row, or to missing.
RECURSIVE catalog_query_loop(_, _, _, _)
catalog_query_loop(rows, sku_ids, items, missing) ==
    IF sku_ids = <<>> THEN [items |-> items, missing |-> missing]
    ELSE LET r == RowById(rows, Head(sku_ids))
         IN IF ~IsNone(r)
            THEN catalog_query_loop(rows, Tail(sku_ids), Append(items, QueryItem(Val(r))),
                                    missing)
            ELSE catalog_query_loop(rows, Tail(sku_ids), items, Append(missing, Head(sku_ids)))

\* 186-188: with no rows and a source that exists the handler calls
\* _build_catalog(force=False) first.
catalog_query(t, sku_ids) ==
    /\ Serving
    /\ FreeWorker(t)
    /\ nreq < MaxRequests
    /\ nreq' = nreq + 1
    /\ LET l == [IdleLoc EXCEPT !.rid = nreq + 1, !.caller = "query", !.ret = "build",
                                !.csv_path = catalog_path, !.sku_ids = sku_ids]
       IN /\ loc' = [loc EXCEPT ![t] = l]
          /\ Goto(t, IF catalog_rows = <<>> /\ PathExists(catalog_path)
                     THEN "lc_exists" ELSE "cq_lookup")
    /\ UNCHANGED <<state_vars, CATALOG_CSV, disk_vars, rq,
                   lc_vars, pure_vars, run_vars, up_vars>>

\* 190-202: rows_by_id from state.catalog_rows, the loop, the response.
cq_lookup(t) ==
    /\ pc[t] = "cq_lookup"
    /\ LET out == catalog_query_loop(catalog_rows, loc[t].sku_ids, <<>>, <<>>)
       IN loc' = [loc EXCEPT ![t] = [@ EXCEPT !.resp = QueryResp(out.items, out.missing)]]
    /\ Goto(t, "done")
    /\ UNCHANGED <<state_vars, CATALOG_CSV, disk_vars, rq, nreq,
                   lc_vars, pure_vars, run_vars, up_vars>>

---------------------------------------------------------------------------
(* Scoring: mvp_reco.cos_sim and the ranking of api.recommend.             *)

Min(a, b) == IF a < b THEN a ELSE b
Max(a, b) == IF a > b THEN a ELSE b

Dot(u, v) == u[1] * v[1] + u[2] * v[2]

\* cos_sim(a, b) for vectors of length Scale, in units of 1 / Scale^2
\* (the 1e-8 of the denominator is below the unit).
cos_sim(a, b) == [i \in 1..Len(b) |-> Dot(b[i], a)]

\* numpy broadcasting of two 1-d arrays: equal lengths, or one of length 1.
Broadcastable(x, y) == Len(x) = Len(y) \/ Len(x) = 1 \/ Len(y) = 1
At(x, i) == IF Len(x) = 1 THEN x[1] ELSE x[i]

\* The weights of the two modalities exchanged.
fused_score_swapped(alpha, s_img, s_txt) ==
    [i \in 1..Max(Len(s_img), Len(s_txt)) |->
        alpha * At(s_txt, i) + (10 - alpha) * At(s_img, i)]

\* alpha_img * s_img + (1 - alpha_img) * s_txt, alpha in tenths (units of 1 / (10 Scale^2)).
fused_score(alpha, s_img, s_txt) ==
    [i \in 1..Max(Len(s_img), Len(s_txt)) |->
        alpha * At(s_img, i) + (10 - alpha) * At(s_txt, i)]

\* The orders that put the worst score first.
argsort_asc(score) ==
    {p \in Permutations(1..Len(score)) :
        \A i \in 1..(Len(score) - 1) : score[p[i]] <= score[p[i + 1]]}

\* np.argsort(-score): the index orders np.argsort may return, best score first.
\* The sort is numpy's default kind ("quicksort"), which is not stable: the order of
\* equal scores is whatever the algorithm of the build leaves.
argsort_desc(score) ==
    {p \in Permutations(1..Len(score)) :
        \A i \in 1..(Len(score) - 1) : score[p[i]] >= score[p[i + 1]]}

\* Python's seq[:k].
SliceTo(seq, k) ==
    SubSeq(seq, 1, IF k >= 0 THEN Min(k, Len(seq)) ELSE Max(Len(seq) + k, 0))

---------------------------------------------------------------------------
(* POST /recommend, a coroutine of the event loop.                         *)

TopkValues == {0, 1, 2}
AlphaValues == {7}
Crops == <<<<"crop", "i1.jpg">>, <<"crop", "i4.jpg">>>>

\* What the detector returns: n instances, each with its crop.
ClassNames == <<"chair", "lamp">>
Detected(n) ==
    [i \in 1..n |-> [bbox |-> <<i, i, i + 2, i + 2>>, class |-> ClassNames[((i - 1) % 2) + 1],
                     conf |-> 10 - i, crop |-> Crops[((i - 1) % 2) + 1]]]

RecoResp(code, results, vis, image_url) ==
    Some([code |-> code, instances |-> results, vis_url |-> vis, image_url |-> image_url])

RecommendFail == /\ Goto(Loop, "done")
                 /\ rq' = [IdleRq EXCEPT !.resp = RecoResp(500, <<>>, FALSE, None)]

\* The instance's result put in front of the results instead of at their end.
NextInstance_prepend(recos, used) ==
    LET inst == Head(rq.instances)
        res == [bbox |-> inst.bbox, class |-> inst.class, det_conf |-> inst.conf,
                top_k |-> recos,
                top1 |-> IF recos = <<>> THEN None ELSE Some(recos[1]),
                used |-> used]
        r == [rq EXCEPT !.instances = Tail(@), !.results = <<res>> \o @,
                        !.img = None, !.txt = None, !.rows = None,
                        !.score = <<>>, !.idx = <<>>, !.recos = <<>>]
    IN /\ rq' = r
       /\ Goto(Loop, IF r.instances = <<>> THEN "rc_finish" ELSE "rc_img")

\* 243-249 and the loop's next round: the instance's result is appended.
NextInstance(recos, used) ==
    LET inst == Head(rq.instances)
        res == [bbox |-> inst.bbox, class |-> inst.class, det_conf |-> inst.conf,
                top_k |-> recos,
                top1 |-> IF recos = <<>> THEN None ELSE Some(recos[1]),
                used |-> used]
        r == [rq EXCEPT !.instances = Tail(@), !.results = Append(@, res),
                        !.img = None, !.txt = None, !.rows = None,
                        !.score = <<>>, !.idx = <<>>, !.recos = <<>>]
    IN /\ rq' = r
       /\ Goto(Loop, IF r.instances = <<>> THEN "rc_finish" ELSE "rc_img")

\* The upload of a request that has the event loop to itself.
TheUpload == [filename |-> "a.jpg", image |-> "x"]

\* 211-221: the readiness check, the upload, the detection, for a request that has
\* the event loop to itself (the steps of requests that share the loop are the
\* rcu_ steps below).
recommend(topk, alpha_img, return_vis, n) ==
    /\ Serving
    /\ pc[Loop] = "idle"
    /\ nreq < MaxRequests
    /\ nreq' = nreq + 1
    /\ IF IsNone(img_embs) \/ IsNone(txt_embs)
       THEN /\ Goto(Loop, "done")
            /\ rq' = [IdleRq EXCEPT !.resp = RecoResp(400, <<>>, FALSE, None)]
            /\ UNCHANGED uploads
       ELSE LET img_path == ImgPath(clock, TheUpload.filename)
            IN /\ uploads' = [uploads EXCEPT ![img_path] = TheUpload.image]
               /\ rq' = [IdleRq EXCEPT !.topk = topk, !.alpha = alpha_img,
                                       !.return_vis = return_vis,
                                       !.instances = Detected(n),
                                       !.detected = Detected(n),
                                       !.img_path = Some(img_path),
                                       !.image = TheUpload.image,
                                       !.clean = Aligned(catalog_rows, Val(img_embs),
                                                         Val(txt_embs))]
               /\ Goto(Loop, IF n = 0 THEN "rc_finish" ELSE "rc_img")
    /\ UNCHANGED <<state_vars, CATALOG_CSV, disk_vars, loc,
                   lc_vars, pure_vars, vis_files, clock,
                   up_vars>>

\* 226-227: s_img = cos_sim(emb, state.img_embs)
rc_img ==
    /\ pc[Loop] = "rc_img"
    /\ rq' = [rq EXCEPT !.img = img_embs]
    /\ Goto(Loop, "rc_txt")
    /\ UNCHANGED <<state_vars, CATALOG_CSV, disk_vars, loc, nreq,
                   lc_vars, pure_vars, run_vars, up_vars>>

\* 228-231: s_txt = cos_sim(emb, state.txt_embs); score; idx = argsort(-score)[:topk]
rc_txt ==
    /\ pc[Loop] = "rc_txt"
    /\ LET emb == encode_image(Head(rq.instances).crop)
           s_img == cos_sim(emb, Val(rq.img))
           s_txt == cos_sim(emb, Val(txt_embs))
       IN IF ~Broadcastable(s_img, s_txt)
          THEN RecommendFail
          ELSE LET score == fused_score(rq.alpha, s_img, s_txt)
               IN \E order \in argsort_desc(score) :
                     LET idx == SliceTo(order, rq.topk)
                     IN IF idx = <<>>
                        THEN NextInstance(<<>>, [img |-> rq.img, txt |-> txt_embs,
                                                 rows |-> None])
                        ELSE /\ rq' = [rq EXCEPT !.txt = txt_embs, !.score = score,
                                                 !.idx = idx]
                             /\ Goto(Loop, "rc_row")
    /\ UNCHANGED <<state_vars, CATALOG_CSV, disk_vars, loc, nreq,
                   lc_vars, pure_vars, run_vars, up_vars>>

\* 233-241: row = state.catalog_rows[j] for the next j of idx.
rc_row ==
    /\ pc[Loop] = "rc_row"
    /\ LET j == Head(rq.idx)
       IN IF j > Len(catalog_rows)
          THEN RecommendFail
          ELSE LET row == catalog_rows[j]
                   reco == [sku_id |-> row.sku_id, title |-> row.title,
                            brand |-> row.brand, image_url |-> row.image_path,
                            score |-> rq.score[j]]
                   recos == Append(rq.recos, reco)
               IN IF Tail(rq.idx) = <<>>
                  THEN NextInstance(recos, [img |-> rq.img, txt |-> rq.txt,
                                            rows |-> Some(catalog_rows)])
                  ELSE /\ rq' = [rq EXCEPT !.rows = Some(catalog_rows),
                                           !.idx = Tail(@), !.recos = recos]
                       /\ UNCHANGED pc
    /\ UNCHANGED <<state_vars, CATALOG_CSV, disk_vars, loc, nreq,
                   lc_vars, pure_vars, run_vars, up_vars>>

\* The visualization drawn whenever it is asked for, results or not.
rc_finish_vis_unguarded ==
    /\ pc[Loop] = "rc_finish"
    /\ Goto(Loop, "done")
    /\ LET vis == rq.return_vis
       IN IF vis /\ \E i \in 1..Len(rq.results) : IsNone(rq.results[i].top1)
          THEN /\ rq' = [IdleRq EXCEPT !.resp = RecoResp(500, <<>>, FALSE, None)]
               /\ UNCHANGED vis_files
          ELSE /\ rq' = [IdleRq EXCEPT !.resp = RecoResp(200, rq.results, vis, rq.img_path)]
               /\ vis_files' = IF vis
                                THEN [vis_files EXCEPT ![Val(rq.img_path)] = rq.image]
                                ELSE vis_files
    /\ UNCHANGED <<state_vars, CATALOG_CSV, disk_vars, loc, nreq,
                   lc_vars, pure_vars, uploads, clock,
                   up_vars>>

\* 251-261: the visualization (draw_and_save labels every instance with its top1)
\* and the response.
rc_finish ==
    /\ pc[Loop] = "rc_finish"
    /\ Goto(Loop, "done")
    /\ LET vis == rq.return_vis /\ rq.results # <<>>
       IN IF vis /\ \E i \in 1..Len(rq.results) : IsNone(rq.results[i].top1)
          THEN /\ rq' = [IdleRq EXCEPT !.resp = RecoResp(500, <<>>, FALSE, None)]
               /\ UNCHANGED vis_files
          ELSE /\ rq' = [IdleRq EXCEPT !.resp = RecoResp(200, rq.results, vis, rq.img_path)]
               /\ vis_files' = IF vis
                                THEN [vis_files EXCEPT ![Val(rq.img_path)] = rq.image]
                                ELSE vis_files
    /\ UNCHANGED <<state_vars, CATALOG_CSV, disk_vars, loc, nreq,
                   lc_vars, pure_vars, uploads, clock,
                   up_vars>>

recommend_respond ==
    /\ pc[Loop] = "done"
    /\ Goto(Loop, "idle")
    /\ rq' = IdleRq
    /\ UNCHANGED <<state_vars, CATALOG_CSV, disk_vars, loc, nreq,
                   lc_vars, pure_vars, run_vars, up_vars>>

RecommendStep == rc_img \/ rc_txt \/ rc_row \/ rc_finish \/ recommend_respond

BuilderStep(t) ==
    \/ lc_exists(t) \/ lc_npload(t) \/ lc_jsonload(t) \/ lc_img(t) \/ lc_txt(t)
    \/ lc_rows(t) \/ lc_dim(t)
    \/ bc_loaded_report(t) \/ bc_load_catalog(t) \/ bc_img(t) \/ bc_txt(t) \/ bc_dim(t)
    \/ bc_save(t) \/ sc_npz_open(t) \/ sc_npz_close(t) \/ sc_idx_open(t) \/ sc_idx_fail(t)
    \/ sc_idx_close(t)
    \/ bc_success_report(t)
    \/ rb_setpath(t) \/ respond(t)

\* The rebuild path on its own: startup, then rebuild requests on two pool workers.
NextRebuild ==
    \/ \E t \in Builders : BuilderStep(t)
    \/ \E t \in Workers, force \in BOOLEAN, csv \in RebuildPaths : catalog_rebuild(t, force, csv)

\* A /recommend request in flight while one pool worker rebuilds.
NextServe ==
    \/ \E t \in {Main, "w1"} : BuilderStep(t)
    \/ \E force \in BOOLEAN, csv \in RebuildPaths : catalog_rebuild("w1", force, csv)
    \/ RecommendStep
    \/ \E topk \in TopkValues, alpha \in AlphaValues, n \in 0..MaxInstances :
          recommend(topk, alpha, TRUE, n)

\* Startup, then rebuild requests one at a time on one pool worker.
NextSequential ==
    \/ \E t \in {Main, "w1"} : BuilderStep(t)
    \/ \E force \in BOOLEAN, csv \in RebuildPaths : catalog_rebuild("w1", force, csv)

SpecRebuild == Init /\ [][NextRebuild]_vars

SpecSequential == Init /\ [][NextSequential]_vars

SpecServe == Init /\ [][NextServe]_vars

---------------------------------------------------------------------------
(* POST /recommend coroutines that share the event loop, and GET /health.  *)
(* A coroutine runs from one await to the next without giving up the loop; *)
(* the only await of recommend is `await image.read()` (218).              *)

\* The server after _startup, with no request accepted yet: the index empty, or
\* holding catalog c, with the cache files that go with it.
ServingState(ready, c, default, by) ==
    /\ catalog_rows = IF ready THEN c.rows ELSE <<>>
    /\ img_embs = IF ready THEN Some(c.img_embs) ELSE None
    /\ txt_embs = IF ready THEN Some(c.txt_embs) ELSE None
    /\ embedding_dim = IF ready THEN Some(Dim(c.img_embs)) ELSE None
    /\ npz_file = IF ready THEN FileOk(NpzOf(c.img_embs, c.txt_embs), by) ELSE FileAbsent
    /\ idx_file = IF ready THEN FileOk(ManifestOf(c.rows, c.img_embs), by) ELSE FileAbsent
    /\ catalog_path = default
    /\ CATALOG_CSV = default
    /\ pc = [t \in Threads |-> IF t = Main THEN "serving" ELSE "idle"]
    /\ loc = [t \in Builders |-> IdleLoc]
    /\ rq = IdleRq
    /\ nreq = 0
    /\ lc_csv = [fieldnames |-> RequiredFields, rows |-> <<>>]
    /\ lc_out = None
    /\ DetIdle
    /\ CtfIdle
    /\ uploads = [p \in UploadPaths |-> Absent]
    /\ vis_files = [p \in UploadPaths |-> Absent]
    /\ clock = 0
    /\ running = None
    /\ req = [r \in Reqs |-> IdleReq]
    /\ hq = IdleHealth

\* Nothing loaded and no source, or the cache of CsvB loaded.
InitUpload == \E ready \in BOOLEAN : ServingState(ready, GoodB, CsvMissing, -1)

UploadFrame == UNCHANGED <<state_vars, CATALOG_CSV, disk_vars, pc, loc, rq, nreq,
                           lc_vars, pure_vars>>

\* time.time() moves on.
tick ==
    /\ clock < MaxClock
    /\ clock' = clock + 1
    /\ UNCHANGED <<uploads, vis_files, up_vars>>
    /\ UploadFrame

\* 211-218, up to the await: the readiness check answers 400 at once; otherwise the
\* upload file is opened for writing (created or truncated) and the coroutine
\* waits for the bytes of the upload.
rcu_start(r, filename, image) ==
    /\ Serving
    /\ req[r].pc = "idle"
    /\ running = None
    /\ IF IsNone(img_embs) \/ IsNone(txt_embs)
       THEN /\ req' = [req EXCEPT ![r] = [@ EXCEPT !.pc = "done", !.filename = filename,
                                                   !.image = image, !.resp = 400]]
            /\ UNCHANGED uploads
       ELSE LET img_path == ImgPath(clock, filename)
            IN /\ uploads' = [uploads EXCEPT ![img_path] = Empty]
               /\ req' = [req EXCEPT ![r] = [@ EXCEPT !.pc = "reading",
                                                      !.filename = filename,
                                                      !.image = image,
                                                      !.img_path = Some(img_path)]]
    /\ UNCHANGED <<vis_files, clock, running, hq>>
    /\ UploadFrame

\* A coroutine that calls the detector with the upload file still empty.
rcu_write_skipped(r) ==
    /\ req[r].pc = "reading"
    /\ running = None
    /\ req' = [req EXCEPT ![r].pc = "detecting"]
    /\ running' = Some(r)
    /\ UNCHANGED <<uploads, vis_files, clock, hq>>
    /\ UploadFrame

\* 218-221: the bytes arrive, f.write stores them and the file is closed; then
\* detect_instances is called, a call that does not give up the event loop.
rcu_write(r) ==
    /\ req[r].pc = "reading"
    /\ running = None
    /\ uploads' = [uploads EXCEPT ![Val(req[r].img_path)] = req[r].image]
    /\ req' = [req EXCEPT ![r].pc = "detecting"]
    /\ running' = Some(r)
    /\ UNCHANGED <<vis_files, clock, hq>>
    /\ UploadFrame

\* 221: detect_instances returns, or raises.
rcu_detect(r, ok) ==
    /\ req[r].pc = "detecting"
    /\ running = Some(r)
    /\ IF ok
       THEN /\ req' = [req EXCEPT ![r].pc = "scoring"]
            /\ UNCHANGED running
       ELSE /\ req' = [req EXCEPT ![r].pc = "done", ![r].resp = 500]
            /\ running' = None
    /\ UNCHANGED <<uploads, vis_files, clock, hq>>
    /\ UploadFrame

\* 224-249: every instance is encoded and scored, or an encoder call raises.
rcu_score(r, ok) ==
    /\ req[r].pc = "scoring"
    /\ running = Some(r)
    /\ IF ok
       THEN /\ req' = [req EXCEPT ![r].pc = "drawing"]
            /\ UNCHANGED running
       ELSE /\ req' = [req EXCEPT ![r].pc = "done", ![r].resp = 500]
            /\ running' = None
    /\ UNCHANGED <<uploads, vis_files, clock, hq>>
    /\ UploadFrame

\* 251-261: draw_and_save writes the visualization, the response is returned.
rcu_finish(r) ==
    /\ req[r].pc = "drawing"
    /\ running = Some(r)
    /\ vis_files' = [vis_files EXCEPT ![Val(req[r].img_path)] = req[r].image]
    /\ req' = [req EXCEPT ![r].pc = "done", ![r].resp = 200]
    /\ running' = None
    /\ UNCHANGED <<uploads, clock, hq>>
    /\ UploadFrame

\* A GET /health request reaches the server.
health_request ==
    /\ Serving
    /\ hq.pc = "none"
    /\ hq' = [hq EXCEPT !.pc = "pending"]
    /\ UNCHANGED <<run_vars, running, req>>
    /\ UploadFrame

\* The event loop reads the request and hands the sync handler to the thread pool;
\* it does so only between two steps of its coroutines.
health_dispatch ==
    /\ hq.pc = "pending"
    /\ running = None
    /\ hq' = [hq EXCEPT !.pc = "pool"]
    /\ UNCHANGED <<run_vars, running, req>>
    /\ UploadFrame

\* A health that looks at the image matrix only.
health_img_only ==
    /\ hq.pc = "pool"
    /\ hq' = [hq EXCEPT !.pc = "done", !.catalog_ready = ~IsNone(img_embs)]
    /\ UNCHANGED <<run_vars, running, req>>
    /\ UploadFrame

\* 168-174: health, run by a pool thread.
health ==
    /\ hq.pc = "pool"
    /\ hq' = [hq EXCEPT !.pc = "done",
                        !.catalog_ready = ~IsNone(img_embs) /\ ~IsNone(txt_embs)]
    /\ UNCHANGED <<run_vars, running, req>>
    /\ UploadFrame

\* The answer has been sent; the next /health request may come.
health_respond ==
    /\ hq.pc = "done"
    /\ hq' = [pc |-> "none", catalog_ready |-> FALSE,
              reported |-> hq.reported \/ hq.catalog_ready]
    /\ UNCHANGED <<run_vars, running, req>>
    /\ UploadFrame

NextUpload ==
    \/ tick
    \/ \E r \in Reqs, filename \in Filenames, image \in Images : rcu_start(r, filename, image)
    \/ \E r \in Reqs : rcu_write(r) \/ rcu_finish(r)
    \/ \E r \in Reqs, ok \in BOOLEAN : rcu_detect(r, ok) \/ rcu_score(r, ok)
    \/ health_request \/ health_dispatch \/ health

SpecUpload == InitUpload /\ [][NextUpload]_vars

---------------------------------------------------------------------------
(* /recommend requests one at a time over an index that no rebuild touches. *)

\* _startup found no cache and built the index from its catalog source.
InitRecommend ==
    \E csv \in {CsvA, CsvT, CsvU} : ServingState(TRUE, load_catalog(csv), csv, 0)

TopkAll == {-1, 0, 1, 2, 3, 4}
\* alpha_img in tenths: text only, the default, image only.
AlphaAll == {0, 7, 10}

NextRecommend ==
    \/ RecommendStep
    \/ \E topk \in TopkAll, alpha \in AlphaAll, return_vis \in BOOLEAN,
          n \in 0..MaxInstances : recommend(topk, alpha, return_vis, n)

SpecRecommend == InitRecommend /\ [][NextRecommend]_vars

---------------------------------------------------------------------------
(* load_catalog on its own, over every small catalog source.               *)

RowPool == {RowA1, RowA2, RowA3, RowB1}
Headers == {RequiredFields, RequiredFields \ {"brand"}, {}}

RECURSIVE SeqsUpTo(_, _)
SeqsUpTo(S, n) ==
    IF n = 0 THEN {<<>>}
    ELSE LET shorter == SeqsUpTo(S, n - 1)
         IN shorter \cup {Append(q, x) : q \in {r \in shorter : Len(r) = n - 1}, x \in S}

InitLoadCatalog ==
    /\ Boot(CsvMissing)
    /\ npz_file = FileAbsent
    /\ idx_file = FileAbsent
    /\ lc_csv \in [fieldnames : Headers, rows : SeqsUpTo(RowPool, MaxCsvRows)]
    /\ lc_out = None
    /\ DetIdle
    /\ CtfIdle

call_load_catalog ==
    /\ IsNone(lc_out)
    /\ lc_out' = Some(load_catalog_file(lc_csv, "catalog"))
    /\ UNCHANGED <<state_vars, CATALOG_CSV, disk_vars, pc, loc, rq, nreq, lc_csv,
                   pure_vars, run_vars, up_vars>>

NextLoadCatalog == call_load_catalog

SpecLoadCatalog == InitLoadCatalog /\ [][NextLoadCatalog]_vars

---------------------------------------------------------------------------
(* /catalog/query, /catalog/rebuild and /recommend, one request at a time; a query  *)
(* may follow a /recommend whose response is still at hand.                         *)

\* Nothing loaded and no source, or an index built by _startup from its source.
InitQuery ==
    \/ ServingState(FALSE, GoodB, CsvMissing, 0)
    \/ \E csv \in {CsvA, CsvU} : ServingState(TRUE, load_catalog(csv), csv, 0)

NextQuery ==
    \/ BuilderStep("w1")
    \/ cq_lookup("w1")
    \/ \E sku_ids \in SeqsUpTo(SkuPool, MaxIds) :
          pc[Loop] \in {"idle", "done"} /\ catalog_query("w1", sku_ids)
    \/ \E force \in BOOLEAN, csv \in {Some(CsvA), Some(CsvEmpty)} :
          pc[Loop] = "idle" /\ catalog_rebuild("w1", force, csv)
    \/ pc["w1"] = "idle" /\ RecommendStep
    \/ \E topk \in {1, 2} :
          pc["w1"] = "idle" /\ recommend(topk, 7, FALSE, 1)

SpecQuery == InitQuery /\ [][NextQuery]_vars

---------------------------------------------------------------------------
(* /health next to everything that assigns the index: startup, then rebuilds,  *)
(* queries and /recommend requests one at a time, with /health requests whose  *)
(* handler runs on a pool thread between any two of their steps.               *)

InitHealth == Init

NextHealth ==
    \/ BuilderStep(Main)
    \/ BuilderStep("w1")
    \/ cq_lookup("w1")
    \/ \E sku_ids \in SeqsUpTo({"s1", "s9"}, MaxIds - 1) :
          pc[Loop] \in {"idle", "done"} /\ catalog_query("w1", sku_ids)
    \/ \E force \in BOOLEAN, csv \in {Some(CsvA), Some(CsvEmpty)} :
          pc[Loop] = "idle" /\ catalog_rebuild("w1", force, csv)
    \/ pc["w1"] = "idle" /\ RecommendStep
    \/ pc["w1"] = "idle" /\ recommend(1, 7, FALSE, 1)
    \/ health_request
    \/ pc[Loop] \in {"idle", "done"} /\ health_dispatch
    \/ health
    \/ health_respond

SpecHealth == InitHealth /\ [][NextHealth]_vars

---------------------------------------------------------------------------
(* mvp_reco.detect_instances on its own. Coordinates of the detector are in *)
(* halves of a pixel.                                                       *)

MaxBoxes == 2

\* int(x) of a float given in halves: the fraction is cut off, towards zero.
Trunc(h) == IF h >= 0 THEN h \div 2 ELSE -((-h) \div 2)

\* det_model.names
names == [c \in {0, 1} |-> IF c = 0 THEN "chair" ELSE "lamp"]

\* The box cut at the image's width and height instead of its last pixel.
clip_box_to_size(xyxy, W, H) ==
    <<Max(0, Trunc(xyxy[1])), Max(0, Trunc(xyxy[2])),
      Min(W, Trunc(xyxy[3])), Min(H, Trunc(xyxy[4]))>>

\* 175-176: x1, y1 = max(0, int(x1)), max(0, int(y1));
\*          x2, y2 = min(W-1, int(x2)), min(H-1, int(y2))
clip_box(xyxy, W, H) ==
    <<Max(0, Trunc(xyxy[1])), Max(0, Trunc(xyxy[2])),
      Min(W - 1, Trunc(xyxy[3])), Min(H - 1, Trunc(xyxy[4]))>>

\* 170-185: the loop over res.boxes.
RECURSIVE detect_instances_loop(_, _, _, _)
detect_instances_loop(boxes, W, H, instances) ==
    IF boxes = <<>> THEN instances
    ELSE LET b == Head(boxes)
             bbox == clip_box(b.xyxy, W, H)
         IN IF bbox[3] <= bbox[1] \/ bbox[4] <= bbox[2]
            THEN detect_instances_loop(Tail(boxes), W, H, instances)
            ELSE detect_instances_loop(Tail(boxes), W, H,
                    Append(instances, [bbox |-> bbox, class |-> names[b.cls],
                                       conf |-> b.conf, crop |-> <<"crop", bbox>>]))

\* 160-186, for the image size and the result of det_model.predict.
detect_instances(res) ==
    IF IsNone(res.boxes) THEN <<>>
    ELSE detect_instances_loop(Val(res.boxes), res.size[1], res.size[2], <<>>)

\* Boxes the detector may report: inside the image, over its edges, outside it,
\* narrower than a pixel, with corners exchanged.
XSpans == {<<-3, 5>>, <<3, 7>>, <<2, 11>>, <<5, 5>>, <<9, 13>>, <<5, 3>>}
YSpans == {<<1, 4>>, <<-1, 9>>, <<4, 5>>}
BoxPool ==
    {[xyxy |-> <<x[1], y[1], x[2], y[2]>>, cls |-> c, conf |-> 9 - c] :
        x \in XSpans, y \in YSpans, c \in {0, 1}}
ImageSizes == {<<4, 3>>, <<1, 1>>}

InitDetect ==
    /\ Boot(CsvMissing)
    /\ npz_file = FileAbsent
    /\ idx_file = FileAbsent
    /\ lc_csv = [fieldnames |-> RequiredFields, rows |-> <<>>]
    /\ lc_out = None
    /\ det_res \in [size : ImageSizes,
                    boxes : {None} \cup {Some(q) : q \in SeqsUpTo(BoxPool, MaxBoxes)}]
    /\ det_ret = None
    /\ CtfIdle

call_detect_instances ==
    /\ IsNone(det_ret)
    /\ det_ret' = Some(detect_instances(det_res))
    /\ UNCHANGED <<state_vars, CATALOG_CSV, disk_vars, pc, loc, rq, nreq, lc_vars, det_res,
                   ctf_args, ctf_ret, run_vars, up_vars>>

NextDetect == call_detect_instances

SpecDetect == InitDetect /\ [][NextDetect]_vars

---------------------------------------------------------------------------
(* data_merge.choose_text_field on its own. A string is a sequence of      *)
(* characters; a key of a dict is absent, or holds None, or holds a string.  *)

MaxFields == 2

NoKey == [kind |-> "absent", s |-> <<>>]
Null == [kind |-> "null", s |-> <<>>]
Str(chars) == [kind |-> "str", s |-> chars]

\* dict.get(key, default) or "" for a key that holds a string or None.
GetOrEmpty(field) == IF field.kind = "str" THEN field.s ELSE <<>>

\* dict.get(key, default): None if the key holds None.
Get(field, default) ==
    IF field.kind = "absent" THEN Str(default) ELSE field

\* A lower() that leaves capitals as they are.
lower_skipped(chars) == chars

\* str.lower()
lower(chars) ==
    [i \in 1..Len(chars) |->
        CASE chars[i] = "E" -> "e"
          [] chars[i] = "N" -> "n"
          [] chars[i] = "U" -> "u"
          [] chars[i] = "S" -> "s"
          [] OTHER -> chars[i]]

\* str.startswith(prefix)
startswith(chars, prefix) ==
    Len(chars) >= Len(prefix) /\ SubSeq(chars, 1, Len(prefix)) = prefix

\* 19-29
choose_text_field(field_list, default) ==
    IF field_list = <<>> THEN Str(default)
    ELSE LET en == {i \in 1..Len(field_list) :
                      startswith(lower(GetOrEmpty(field_list[i].language_tag)), <<"e", "n">>)}
         IN IF en # {}
            THEN Get(field_list[CHOOSE i \in en : \A k \in en : i <= k].value, default)
            ELSE Get(field_list[1].value, default)

LanguageTags ==
    {NoKey, Null, Str(<<"e", "n", "_", "U", "S">>), Str(<<"E", "N">>), Str(<<"f", "r">>),
     Str(<<"e">>)}
Values == {NoKey, Null, Str(<<"h", "i">>), Str(<<"y", "o">>)}
FieldPool == [language_tag : LanguageTags, value : Values]
Defaults == {<<>>, <<"d">>}

InitChoose ==
    /\ Boot(CsvMissing)
    /\ npz_file = FileAbsent
    /\ idx_file = FileAbsent
    /\ lc_csv = [fieldnames |-> RequiredFields, rows |-> <<>>]
    /\ lc_out = None
    /\ DetIdle
    /\ ctf_args \in [field_list : SeqsUpTo(FieldPool, MaxFields), default : Defaults]
    /\ ctf_ret = None

call_choose_text_field ==
    /\ IsNone(ctf_ret)
    /\ ctf_ret' = Some(choose_text_field(ctf_args.field_list, ctf_args.default))
    /\ UNCHANGED <<state_vars, CATALOG_CSV, disk_vars, pc, loc, rq, nreq, lc_vars, det_res,
                   det_ret, ctf_args, run_vars, up_vars>>

NextChoose == call_choose_text_field

SpecChoose == InitChoose /\ [][NextChoose]_vars

---------------------------------------------------------------------------
(* Properties.                                                             *)

UsedAligned(u) == Aligned(Val(u.rows), Val(u.img), Val(u.txt))

\* C1 (rebuild atomicity): whatever a /recommend request reads for one scoring step,
\* catalog_rows, img_embs and txt_embs, belongs to one index: metadata and
\* embeddings of different indexes are never combined. Stated for the requests
\* that found one aligned index when they began.
C1_RebuildAtomicity ==
    rq.clean =>
        /\ ~IsNone(rq.rows) => UsedAligned(rq)
        /\ \A i \in 1..Len(rq.results) :
              ~IsNone(rq.results[i].used.rows) => UsedAligned(rq.results[i].used)

\* The builders other than t are at rest.
OthersAtRest(t) == \A u \in Builders \ {t} : pc[u] \in {"idle", "serving"}

\* C2 (alignment invariant): once a build or a cache load has succeeded, and nothing
\* else is writing, catalog_rows, img_embs, txt_embs and the manifest's id list have
\* the same length and catalog_rows[i].sku_id is the manifest's ids[i].
C2_AlignmentInvariant ==
    \A t \in Workers :
        (pc[t] = "done" /\ Val(loc[t].resp).code = 200 /\ OthersAtRest(t)) =>
            /\ ~IsNone(img_embs)
            /\ ~IsNone(txt_embs)
            /\ Len(catalog_rows) = NRows(Val(img_embs))
            /\ Len(catalog_rows) = NRows(Val(txt_embs))
            /\ idx_file.st = "ok"
            /\ idx_file.data.ids = Ids(catalog_rows)

\* C3: _try_load_cache returns true only with matrices that have as many rows as the
\* manifest.
C3_LoadChecksRowCount ==
    \A t \in Builders :
        (pc[t] = "bc_loaded_report" /\ loc[t].loaded = Some(TRUE)) =>
            /\ NRows(Val(loc[t].npz).data.img_embs) = Len(Val(loc[t].idx).data.rows)
            /\ NRows(Val(loc[t].npz).data.txt_embs) = Len(Val(loc[t].idx).data.rows)

\* C4: a _try_load_cache call that returned false has given no field of the index a
\* new value.
C4_NoPartialLoad ==
    \A t \in Builders : loc[t].loaded = Some(FALSE) => ~loc[t].dirty

\* C5 (cache pair consistency): _try_load_cache returns true only with an archive and
\* a manifest that one _save_cache call wrote.
C5_CachePairConsistent ==
    \A t \in Builders :
        (pc[t] = "bc_loaded_report" /\ loc[t].loaded = Some(TRUE)) =>
            Val(loc[t].npz).by = Val(loc[t].idx).by

\* Thread t is inside _build_catalog.
InBuild(t) == pc[t] \notin {"idle", "serving", "crashed", "rb_setpath", "cq_lookup", "done"}

\* C6: two executions of _build_catalog are never in progress at once.
C6_BuildMutex ==
    \A t, u \in Workers : t # u => ~(InBuild(t) /\ InBuild(u))

SameIndex(u, v) ==
    /\ u.img = v.img
    /\ u.txt = v.txt
    /\ IsNone(u.rows) \/ IsNone(v.rows) \/ u.rows = v.rows

\* C7: every instance of one /recommend request is scored against the index its
\* first instance was scored against. Stated for the requests that found one
\* aligned index when they began.
C7_OneSnapshotPerRequest ==
    rq.clean =>
        \A i \in 1..Len(rq.results) : SameIndex(rq.results[i].used, rq.results[1].used)

\* C8: a rebuild with force = false whose cache load succeeded answers "loaded", has
\* called the encoder zero times and has not read the catalog source; a rebuild with
\* force = true never answers "loaded".
C8_LoadedWithoutEncoder ==
    \A t \in Workers :
        pc[t] = "done" =>
            /\ (~loc[t].force /\ loc[t].loaded = Some(TRUE)) =>
                  /\ Val(loc[t].resp).status = "loaded"
                  /\ loc[t].enc_calls = 0
                  /\ ~loc[t].src_read
            /\ loc[t].force => Val(loc[t].resp).status # "loaded"

C8_Witness ==
    \E t \in Workers :
        /\ pc[t] = "done"
        /\ ~loc[t].force
        /\ loc[t].loaded = Some(TRUE)
        /\ Val(loc[t].resp).status = "loaded"

\* C9: a build whose source yields no usable row fails with an error and the request
\* has given no field of the index a new value.
C9_EmptyBuildKeepsIndex ==
    \A t \in Workers :
        (pc[t] = "done" /\ loc[t].src_read /\ ~load_catalog(loc[t].csv_path).ok) =>
            /\ Val(loc[t].resp).code = 500
            /\ ~loc[t].changed

Resolvable(row) == <<"catalog", row.image_path>> \in ImageFiles

\* C10: load_catalog keeps exactly the source rows whose image exists, in source
\* order, a missing image fails nothing unless no row is left, and row i of each
\* matrix is the embedding computed for kept row i.
C10_BuiltRowsAreResolvableRows ==
    (~IsNone(lc_out) /\ RequiredFields \subseteq lc_csv.fieldnames) =>
        LET out == Val(lc_out)
            kept == SelectSeq(lc_csv.rows, Resolvable)
        IN IF kept = <<>> THEN ~out.ok
           ELSE /\ out.ok
                /\ Len(out.rows) = Len(kept)
                /\ Len(out.img_embs) = Len(kept)
                /\ Len(out.txt_embs) = Len(kept)
                /\ \A i \in 1..Len(kept) :
                      /\ out.rows[i].sku_id = kept[i].sku_id
                      /\ out.rows[i].title = kept[i].title
                      /\ out.rows[i].brand = kept[i].brand
                      /\ out.rows[i].image_path = <<"catalog", kept[i].image_path>>
                      /\ out.img_embs[i] = encode_image(<<"catalog", kept[i].image_path>>)
                      /\ out.txt_embs[i] = encode_text(<<kept[i].brand, kept[i].title>>)

C10_Witness ==
    /\ ~IsNone(lc_out)
    /\ Val(lc_out).ok
    /\ Len(Val(lc_out).rows) = 2
    /\ Len(lc_csv.rows) = 3
    /\ ~Resolvable(lc_csv.rows[2])

---------------------------------------------------------------------------
(* Cache fallback and round trip.                                          *)

\* The archive and the manifest agree: both complete, the manifest has its rows and
\* each matrix has one row per manifest row.
CachePairAgrees(npz, idx) ==
    /\ npz.st = "ok"
    /\ idx.st = "ok"
    /\ "rows" \in DOMAIN idx.data
    /\ NRows(npz.data.img_embs) = Len(idx.data.rows)
    /\ NRows(npz.data.txt_embs) = Len(idx.data.rows)

\* C11: a rebuild with force = false over a resolvable source answers "loaded" only
\* from a cache whose archive and manifest agree; from a mismatched cache it falls
\* back to a build, so the mismatched cache never becomes the index.
C11_CorruptCacheFallsBack ==
    \A t \in Workers :
        (/\ pc[t] = "done"
         /\ ~loc[t].force
         /\ PathExists(loc[t].csv_path)
         /\ Val(loc[t].resp).status = "loaded") =>
            CachePairAgrees(npz_file, idx_file)

\* C12 (cache round trip): when requests run one at a time, a load of the archive and
\* the manifest that one _save_cache call of a build wrote gives every field of the
\* index the value the build left in it: same rows in the same order, same
\* matrices, same embedding_dim.
C12_CacheRoundTrip ==
    \A t \in Workers :
        (/\ pc[t] = "done"
         /\ Val(loc[t].resp).status = "loaded"
         /\ npz_file.by = idx_file.by
         /\ npz_file.by > 0) =>
            /\ ~loc[t].changed
            /\ Aligned(catalog_rows, Val(img_embs), Val(txt_embs))
            /\ embedding_dim = Some(Dim(Val(img_embs)))
            /\ Val(loc[t].resp).catalog_size = Len(catalog_rows)

C12_Witness ==
    \E t \in Workers :
        /\ pc[t] = "done"
        /\ Val(loc[t].resp).status = "loaded"
        /\ npz_file.by = idx_file.by
        /\ npz_file.by > 0
        /\ Len(catalog_rows) = 2

---------------------------------------------------------------------------
(* /recommend: readiness.                                                  *)

\* C13: a /recommend request goes past its readiness check (on to detection and
\* scoring) only when the index holds at least one row.
C13_ReadyOnlyWhenPopulated ==
    [][(pc[Loop] = "idle" /\ pc'[Loop] \in {"rc_img", "rc_finish"})
           => Len(catalog_rows) > 0]_vars

\* C14: a /recommend request refused because the index is not ready has still left
\* its upload in the uploads directory.
C14_NotReadyKeepsUpload ==
    \A r \in Reqs :
        req[r].resp = 400 =>
            \E p \in UploadPaths : p[2] = req[r].filename /\ uploads[p] = req[r].image

\* Request r is past the write of its upload: in the detector, scoring or drawing.
Processing(r) == req[r].pc \in {"detecting", "scoring", "drawing"}

\* No other request has opened the path of request r.
PathUnshared(r) ==
    \A q \in Reqs \ {r} : req[q].img_path # req[r].img_path

\* C15: from the call of the detector on, the upload file of a request holds all the
\* bytes of its upload; a request that failed in detection or in an encoder call
\* was answered with an error and its upload file is still on disk (with its
\* bytes, unless another request opened the same path).
C15_UploadBeforeDetection ==
    \A r \in Reqs :
        /\ Processing(r) =>
              /\ ~IsNone(req[r].img_path)
              /\ uploads[Val(req[r].img_path)] = req[r].image
        /\ req[r].resp = 500 =>
              /\ ~IsNone(req[r].img_path)
              /\ uploads[Val(req[r].img_path)] # Absent
              /\ PathUnshared(r) => uploads[Val(req[r].img_path)] = req[r].image

C15_Witness ==
    \E r \in Reqs :
        /\ req[r].resp = 500
        /\ uploads[Val(req[r].img_path)] = req[r].image
        /\ \E q \in Reqs : Processing(q)

\* C16: no two /recommend requests store their upload (and so their visualization,
\* named after it) under the same path.
C16_UniqueUploadNames ==
    \A r, q \in Reqs :
        (r # q /\ ~IsNone(req[r].img_path) /\ ~IsNone(req[q].img_path)) =>
            req[r].img_path # req[q].img_path

\* Request r is inside a call that holds the event loop: the detector, an encoder
\* call, the drawing of the visualization.
Blocked(r) == Processing(r) /\ running = Some(r)

\* C17: while a /recommend request is inside detection, encoding or file I/O, a
\* /health request that is waiting and another /recommend request waiting for its
\* upload can take their next step.
C17_UnrelatedRequestsProgress ==
    \A r \in Reqs :
        Blocked(r) =>
            /\ hq.pc = "pending" => ENABLED health_dispatch
            /\ \A q \in Reqs \ {r} : req[q].pc = "reading" => ENABLED rcu_write(q)

---------------------------------------------------------------------------
(* /recommend: ranking.                                                    *)

\* The fused score of every catalog row for the i-th detected instance.
ScoreOf(i) ==
    LET emb == encode_image(Crops[((i - 1) % 2) + 1])
    IN fused_score(rq.alpha, cos_sim(emb, Val(img_embs)), cos_sim(emb, Val(txt_embs)))

\* The row a recommendation was made from.
RowIndex(reco) == CHOOSE m \in 1..Len(catalog_rows) : catalog_rows[m].sku_id = reco.sku_id

\* The scoring loop has ended and the results are about to be returned.
Ranked == pc[Loop] = "rc_finish"

C19_TopkClamped ==
    Ranked =>
        \A i \in 1..Len(rq.results) :
            Len(rq.results[i].top_k) = Min(Max(rq.topk, 0), Len(catalog_rows))

\* C20: of two rows with equal fused score the one with the smaller row index comes
\* first in top_k, and is the one listed when only one of them is.
C20_TiesInRowOrder ==
    Ranked =>
        \A i \in 1..Len(rq.results) :
            LET tk == rq.results[i].top_k
                score == ScoreOf(i)
                listed == {RowIndex(tk[j]) : j \in 1..Len(tk)}
            IN /\ \A j, k \in 1..Len(tk) :
                     (j < k /\ tk[j].score = tk[k].score) =>
                         RowIndex(tk[j]) < RowIndex(tk[k])
               /\ \A m \in listed, l \in 1..Len(catalog_rows) :
                     (l < m /\ score[l] = score[m]) => l \in listed

---------------------------------------------------------------------------
(* /recommend: the fused score of a match.                                  *)

\* The query embedding of the i-th detected instance.
QueryEmb(i) == encode_image(Crops[((i - 1) % 2) + 1])

\* A score of 1.0 in the unit of fused_score.
One == 10 * Scale * Scale

\* C21: every match of top_k carries sku_id, title, brand and image path of one
\* catalog row j and, as its score, alpha_img * s_img[j] + (1 - alpha_img) * s_txt[j]
\* of that same row j; over the two-row catalog with embeddings [1,0] and [0,1],
\* query [1,0], alpha_img = 0.7 and topk = 1 the one match is row 0 with score 1.0.
C21_FusedScoreOfSameRow ==
    Ranked =>
        \A i \in 1..Len(rq.results) :
            LET tk == rq.results[i].top_k
                emb == QueryEmb(i)
            IN /\ \A k \in 1..Len(tk) :
                     \E j \in 1..Len(catalog_rows) :
                        /\ tk[k].sku_id = catalog_rows[j].sku_id
                        /\ tk[k].title = catalog_rows[j].title
                        /\ tk[k].brand = catalog_rows[j].brand
                        /\ tk[k].image_url = catalog_rows[j].image_path
                        /\ tk[k].score = rq.alpha * Dot(Val(img_embs)[j], emb)
                                         + (10 - rq.alpha) * Dot(Val(txt_embs)[j], emb)
               /\ (/\ Val(img_embs) = <<<<Scale, 0>>, <<0, Scale>>>>
                   /\ Val(txt_embs) = <<<<Scale, 0>>, <<0, Scale>>>>
                   /\ emb = <<Scale, 0>> /\ rq.alpha = 7 /\ rq.topk = 1)
                  => /\ Len(tk) = 1
                     /\ tk[1].sku_id = catalog_rows[1].sku_id
                     /\ tk[1].score = One

C21_Witness ==
    /\ Ranked
    /\ Val(img_embs) = <<<<Scale, 0>>, <<0, Scale>>>>
    /\ Val(txt_embs) = <<<<Scale, 0>>, <<0, Scale>>>>
    /\ rq.alpha = 7 /\ rq.topk = 1
    /\ Len(rq.results) = 1
    /\ rq.results[1].top_k[1].sku_id = "s7"
    /\ rq.results[1].top_k[1].score = One

---------------------------------------------------------------------------
(* /recommend: the visualization and the instance list.                    *)

\* C22: a request with return_vis true and at least one detected instance succeeds
\* with a visualization file written and its location in the response, whatever
\* topk is; a request with return_vis false or no instance writes no visualization
\* and returns no location.
C22_VisualizationWhenAsked ==
    [][pc[Loop] = "rc_finish" =>
          IF rq.return_vis /\ rq.results # <<>>
          THEN /\ Val(rq'.resp).code = 200
               /\ Val(rq'.resp).vis_url
               /\ vis_files'[Val(rq.img_path)] = rq.image
          ELSE /\ ~Val(rq'.resp).vis_url
               /\ vis_files' = vis_files]_vars

\* C23: when the detector returns no instance for a request over a ready index, the
\* response is a 200 with an empty instance list, no visualization location and
\* the location of the upload, which is on disk, whatever return_vis and topk are;
\* no visualization is written.
C23_ZeroInstancesSucceed ==
    [][(pc[Loop] = "rc_finish" /\ rq.detected = <<>>) =>
          /\ Val(rq'.resp).code = 200
          /\ Val(rq'.resp).instances = <<>>
          /\ ~Val(rq'.resp).vis_url
          /\ Val(rq'.resp).image_url = rq.img_path
          /\ uploads'[Val(rq.img_path)] = rq.image
          /\ vis_files' = vis_files]_vars

C23_Witness ==
    /\ pc[Loop] = "done"
    /\ Val(rq.resp).code = 200
    /\ Val(rq.resp).instances = <<>>
    /\ ~Val(rq.resp).vis_url
    /\ Val(rq.resp).image_url = Some(ImgPath(0, TheUpload.filename))

\* C24: the instances of a 200 response are the detected instances, one entry each
\* and in the detector's order: the i-th entry carries bbox, class and confidence
\* of the i-th detected instance.
C24_InstancesInDetectionOrder ==
    [][(pc[Loop] = "rc_finish" /\ Val(rq'.resp).code = 200) =>
          LET out == Val(rq'.resp).instances
          IN /\ Len(out) = Len(rq.detected)
             /\ \A i \in 1..Len(out) :
                   /\ out[i].bbox = rq.detected[i].bbox
                   /\ out[i].class = rq.detected[i].class
                   /\ out[i].det_conf = rq.detected[i].conf]_vars

C24_Witness ==
    /\ pc[Loop] = "done"
    /\ Val(rq.resp).code = 200
    /\ Len(Val(rq.resp).instances) = 2
    /\ Val(rq.resp).instances[1].class = "chair"
    /\ Val(rq.resp).instances[2].class = "lamp"
    /\ Val(rq.resp).instances[1].bbox # Val(rq.resp).instances[2].bbox

---------------------------------------------------------------------------
(* /catalog/rebuild: a source that does not exist.                         *)

\* C25: a /catalog/rebuild whose catalog source does not exist answers with status
\* 400 and changes neither the index (catalog_rows, img_embs, txt_embs,
\* embedding_dim), nor the configured catalog path, nor the cache files.
C25_MissingSourceLeavesState ==
    [][\A t \in Workers :
          (pc[t] = "idle" /\ pc'[t] # "idle" /\ ~PathExists(loc'[t].csv_path)) =>
              /\ pc'[t] = "done"
              /\ Val(loc'[t].resp).code = 400
              /\ UNCHANGED <<index_vars, catalog_path, disk_vars>>]_vars

C25_Witness ==
    \E t \in Workers :
        /\ pc[t] = "done"
        /\ Val(loc[t].resp).code = 400
        /\ loc[t].csv_path = CsvMissing
        /\ catalog_path = CsvA
        /\ Len(catalog_rows) = 2
        /\ npz_file.st = "ok"

---------------------------------------------------------------------------
(* /catalog/query.                                                         *)

\* C26: a /catalog/query that names ids and finds no index (the index is still empty
\* when it answers) answers with the catalog-not-ready client error; it has not
\* tried to load or build the index itself, and it does not report the ids as
\* missing.
C26_QueryNotReadyRefused ==
    \A t \in Workers :
        (/\ pc[t] = "done" /\ loc[t].caller = "query"
         /\ loc[t].sku_ids # <<>> /\ catalog_rows = <<>>) =>
            /\ Val(loc[t].resp).code = 400
            /\ IsNone(loc[t].loaded)
            /\ ~loc[t].src_read

\* C27: the answer of /catalog/query splits the request: the ids that some catalog
\* row carries are in items, in request order and with that row's metadata, the
\* others are in missing, in request order, every occurrence is in one of the two
\* and len(items) + len(missing) is the number of requested ids; a sku_id that a
\* /recommend response over the same index carries is found in items.
C27_QueryPartitions ==
    \A t \in Workers :
        (pc[t] = "done" /\ loc[t].caller = "query" /\ Val(loc[t].resp).code = 200) =>
            LET ids == loc[t].sku_ids
                items == Val(loc[t].resp).items
                missing == Val(loc[t].resp).missing
                Known(sid) == \E j \in 1..Len(catalog_rows) : catalog_rows[j].sku_id = sid
                Unknown(sid) == ~Known(sid)
            IN /\ Len(items) + Len(missing) = Len(ids)
               /\ [k \in 1..Len(items) |-> items[k].sku_id] = SelectSeq(ids, Known)
               /\ missing = SelectSeq(ids, Unknown)
               /\ \A k \in 1..Len(items) :
                     \E j \in 1..Len(catalog_rows) :
                        /\ items[k].sku_id = catalog_rows[j].sku_id
                        /\ items[k].title = catalog_rows[j].title
                        /\ items[k].brand = catalog_rows[j].brand
                        /\ items[k].image_url = catalog_rows[j].image_path
               /\ (pc[Loop] = "done" /\ Val(rq.resp).code = 200) =>
                     \A i \in 1..Len(Val(rq.resp).instances) :
                        \A m \in 1..Len(Val(rq.resp).instances[i].top_k) :
                           LET sid == Val(rq.resp).instances[i].top_k[m].sku_id
                           IN (\E k \in 1..Len(ids) : ids[k] = sid) =>
                                 /\ \E k \in 1..Len(items) : items[k].sku_id = sid
                                 /\ \A k \in 1..Len(missing) : missing[k] # sid

C27_Witness ==
    /\ pc["w1"] = "done" /\ loc["w1"].caller = "query"
    /\ pc[Loop] = "done" /\ Val(rq.resp).code = 200
    /\ Val(rq.resp).instances[1].top_k[1].sku_id = "s1"
    /\ loc["w1"].sku_ids = <<"s9", "s1">>
    /\ Len(Val(loc["w1"].resp).items) = 1
    /\ Val(loc["w1"].resp).items[1].sku_id = "s1"
    /\ Val(loc["w1"].resp).missing = <<"s9">>

---------------------------------------------------------------------------
(* The index: unit norm.                                                   *)

\* Every row of matrix m has norm 1 (length Scale).
UnitRows(m) == \A i \in 1..Len(m) : m[i][1] * m[i][1] + m[i][2] * m[i][2] = Scale * Scale

\* C29 (unit-norm invariant): whatever img_embs and txt_embs hold, put there by a
\* build or by a cache load, every row of either has norm 1.
C29_UnitNormRows ==
    /\ ~IsNone(img_embs) => UnitRows(Val(img_embs))
    /\ ~IsNone(txt_embs) => UnitRows(Val(txt_embs))

\* The index has been built from a source and then loaded again from the cache that
\* the build wrote.
C29_Witness ==
    \E t \in Workers :
        /\ pc[t] = "done"
        /\ Val(loc[t].resp).status = "loaded"
        /\ npz_file.st = "ok" /\ npz_file.by > 0
        /\ Len(Val(img_embs)) = 2
        /\ Val(img_embs) = npz_file.data.img_embs
        /\ Val(txt_embs)[2] = <<4, 3>>

---------------------------------------------------------------------------
(* detect_instances: the boxes.                                            *)

\* A coordinate cut to whole pixels and clipped to 0..limit.
Clipped(h, limit) == Min(Max(Trunc(h), 0), Max(limit, 0))

\* The box of a detection, cut to whole pixels and clipped to the W x H image.
ClippedBox(b) ==
    LET W == det_res.size[1]
        H == det_res.size[2]
    IN <<Clipped(b.xyxy[1], W - 1), Clipped(b.xyxy[2], H - 1),
         Clipped(b.xyxy[3], W - 1), Clipped(b.xyxy[4], H - 1)>>

NonEmptyBox(b) == ClippedBox(b)[1] < ClippedBox(b)[3] /\ ClippedBox(b)[2] < ClippedBox(b)[4]

\* C28: every instance that detect_instances returns for a W x H image has a bbox
\* of integers with 0 <= x1 < x2 <= W-1 and 0 <= y1 < y2 <= H-1; the instances are,
\* in the detector's order, the detections whose box, cut to whole pixels and
\* clipped to the image, is not empty, each with that clipped box and with the
\* detection's class and confidence.
C28_BoxesClippedInOrder ==
    ~IsNone(det_ret) =>
        LET out == Val(det_ret)
            W == det_res.size[1]
            H == det_res.size[2]
            boxes == IF IsNone(det_res.boxes) THEN <<>> ELSE Val(det_res.boxes)
            kept == SelectSeq(boxes, NonEmptyBox)
        IN /\ \A i \in 1..Len(out) :
                 /\ \A k \in 1..4 : out[i].bbox[k] \in Int
                 /\ 0 <= out[i].bbox[1] /\ out[i].bbox[1] < out[i].bbox[3]
                 /\ out[i].bbox[3] <= W - 1
                 /\ 0 <= out[i].bbox[2] /\ out[i].bbox[2] < out[i].bbox[4]
                 /\ out[i].bbox[4] <= H - 1
           /\ Len(out) = Len(kept)
           /\ \A i \in 1..Len(out) :
                 /\ out[i].bbox = ClippedBox(kept[i])
                 /\ out[i].class = names[kept[i].cls]
                 /\ out[i].conf = kept[i].conf

\* Of two detections the first lies outside the image and is dropped, the second
\* reaches over the right and the lower edge and is clipped.
C28_Witness ==
    /\ ~IsNone(det_ret)
    /\ det_res.size = <<4, 3>>
    /\ ~IsNone(det_res.boxes)
    /\ Len(Val(det_res.boxes)) = 2
    /\ Val(det_res.boxes)[1].xyxy = <<9, 1, 13, 4>>
    /\ Val(det_res.boxes)[2].xyxy = <<2, -1, 11, 9>>
    /\ Len(Val(det_ret)) = 1
    /\ Val(det_ret)[1].bbox = <<1, 0, 3, 2>>

---------------------------------------------------------------------------
(* choose_text_field.                                                      *)

\* The entry's language_tag is a string that begins with "en", in any case of
\* letters; an entry whose language_tag is absent or None is not English.
English(item) ==
    /\ item.language_tag.kind = "str"
    /\ Len(item.language_tag.s) >= 2
    /\ item.language_tag.s[1] \in {"e", "E"}
    /\ item.language_tag.s[2] \in {"n", "N"}

\* C30: choose_text_field returns the value of the first entry whose language_tag
\* begins with "en" in any case, if there is one; else the value of the first entry;
\* else, for an empty list, the default. An entry whose language_tag is absent or
\* None counts as not English. (An entry picked that has no value gives the default.)
C30_EnglishElseFirstElseDefault ==
    ~IsNone(ctf_ret) =>
        LET fl == ctf_args.field_list
            en == {i \in 1..Len(fl) : English(fl[i])}
            picked == IF en # {} THEN fl[CHOOSE i \in en : \A k \in en : i <= k] ELSE fl[1]
        IN /\ fl = <<>> => Val(ctf_ret) = Str(ctf_args.default)
           /\ fl # <<>> =>
                 /\ picked.value.kind # "absent" => Val(ctf_ret) = picked.value
                 /\ picked.value.kind = "absent" => Val(ctf_ret) = Str(ctf_args.default)

\* The first entry has no language_tag, the second is tagged "EN": the second's
\* value is returned.
C30_Witness ==
    /\ ~IsNone(ctf_ret)
    /\ Len(ctf_args.field_list) = 2
    /\ ctf_args.field_list[1].language_tag = NoKey
    /\ ctf_args.field_list[1].value = Str(<<"h", "i">>)
    /\ ctf_args.field_list[2].language_tag = Str(<<"E", "N">>)
    /\ ctf_args.field_list[2].value = Str(<<"y", "o">>)
    /\ Val(ctf_ret) = Str(<<"y", "o">>)

---------------------------------------------------------------------------
(* Rebuilds: the cache and the index in memory.                            *)

\* A load of the cache files would give exactly the index in memory.
CacheIsActiveIndex ==
    /\ npz_file.st = "ok"
    /\ idx_file.st = "ok"
    /\ ~IsNone(img_embs)
    /\ ~IsNone(txt_embs)
    /\ npz_file.data = NpzOf(Val(img_embs), Val(txt_embs))
    /\ "rows" \in DOMAIN idx_file.data
    /\ idx_file.data.rows = catalog_rows

\* C31: when the /catalog/rebuild requests of both workers have finished, each with
\* the report of a fresh build, the cache files describe the index in memory: the
\* archive holds the active img_embs and txt_embs and the manifest the active rows.
C31_CacheDescribesActiveIndex ==
    (/\ Serving
     /\ \A t \in Workers : /\ pc[t] = "done"
                           /\ Val(loc[t].resp).code = 200
                           /\ Val(loc[t].resp).status = "success")
        => CacheIsActiveIndex

\* The index in memory is the one load_catalog derives from catalog source csv.
IndexOf(csv) ==
    LET c == load_catalog(csv)
    IN /\ c.ok
       /\ catalog_rows = c.rows
       /\ img_embs = Some(c.img_embs)
       /\ txt_embs = Some(c.txt_embs)

\* C32 (cache staleness): when a /catalog/rebuild for catalog source S answers with a
\* report, "loaded" or "success", over a cache that this server wrote, the index in
\* memory is the one derived from S.
C32_ReportedIndexIsOfSource ==
    \A t \in Workers :
        (/\ pc[t] = "done"
         /\ Val(loc[t].resp).code = 200
         /\ OthersAtRest(t)
         /\ npz_file.st = "ok" /\ npz_file.by >= 0
         /\ idx_file.st = "ok" /\ idx_file.by >= 0) =>
            IndexOf(loc[t].csv_path)

\* C33: the first /catalog/rebuild request after startup, when it ends in an error
\* (no source, an empty or unreadable source, a failure while writing the cache), has
\* given no field of the index a new value and has left catalog_path, which startup
\* set to CATALOG_CSV, as it was.
C33_FailedRebuildChangesNothing ==
    \A t \in Workers :
        (/\ pc[t] = "done"
         /\ loc[t].caller = "rebuild"
         /\ loc[t].rid = 1
         /\ Val(loc[t].resp).code >= 400) =>
            /\ ~loc[t].changed
            /\ catalog_path = CATALOG_CSV

\* Both matrices are set: the state in which /recommend serves.
Populated == ~IsNone(img_embs) /\ ~IsNone(txt_embs)

\* C34: whenever the server is at rest with both matrices set, embedding_dim is the
\* column count of img_embs and of txt_embs.
C34_DimIsMatrixWidth ==
    (/\ Serving
     /\ \A t \in Workers : pc[t] \in {"idle", "done"}
     /\ Populated) =>
        /\ embedding_dim = Some(Dim(Val(img_embs)))
        /\ embedding_dim = Some(Dim(Val(txt_embs)))

---------------------------------------------------------------------------
(* Readiness.                                                              *)

\* C35: once a /health request has answered catalog_ready = true, every later /health
\* request answers true, whatever startup, rebuilds, cache loads, queries and
\* /recommend requests, failed ones included, have done in between; and /health
\* answers catalog_ready = true from exactly the states in which a /recommend request
\* passes its readiness check (it is answered 400 from exactly the others).
C35_ReadinessMonotoneAndConsistent ==
    /\ [](hq.pc = "done" /\ hq.reported => hq.catalog_ready)
    /\ [][/\ (hq.pc = "pool" /\ hq'.pc = "done") =>
                (hq'.catalog_ready <=> Populated)
          /\ (pc[Loop] = "idle" /\ pc'[Loop] # "idle") =>
                ((pc'[Loop] = "done" /\ Val(rq'.resp).code = 400) <=> ~Populated)]_vars

\* A /health request answers true after an earlier one did and after a rebuild that
\* failed in between.
C35_Witness ==
    /\ hq.pc = "done"
    /\ hq.reported
    /\ hq.catalog_ready
    /\ pc["w1"] = "done"
    /\ loc["w1"].caller = "rebuild"
    /\ Val(loc["w1"].resp).code = 500

=============================================================================
